---- MODULE Spec2Model ----
(***************************************************************************)
(* Model of src/app.py: the Gemini response interpreter                    *)
(* (summarize_with_gemini) and the Streamlit session around it (main).     *)
(*                                                                         *)
(* Text.  A Python str is modelled as a sequence of pieces.  A piece is an *)
(* atomic run of characters; the pieces are chosen so that none of the     *)
(* substrings the code searches for can straddle two pieces.  TLA+ string  *)
(* literals are ASCII, so the Korean literals of the source are written in *)
(* romanised form:                                                         *)
(*     "hojae"            '호재'       (positive)                          *)
(*     "akjae"            '악재'       (negative)                          *)
(*     "jungnip"          '중립'       (neutral)                           *)
(*     "gamseong bunseok" '감성 분석'  (sentiment marker)                  *)
(*     "gamseongbunseok"  '감성분석'   (sentiment marker, no blank)        *)
(*     "gamseong"         '감성'       (loose mention of sentiment)        *)
(*     "hangugeo jemok:"  '한국어 제목:' (title marker)                    *)
(*     "3jul yoyak:"      '3줄 요약:'  (summary marker)                    *)
(*     "haeksim munjang:" '핵심 문장:' (key-quote marker)                  *)
(*     "bullet"           '•'                                              *)
(*     "yoyak silpae: "   '⚠️ 요약 생성 실패: ' (error placeholder)        *)
(***************************************************************************)
EXTENDS Integers, Sequences, FiniteSets, TLC

\* ------------------------------------------------------------------ pieces
POSITIVE == "hojae"
NEGATIVE == "akjae"
NEUTRAL == "jungnip"
SENT_MARK == "gamseong bunseok"
SENT_MARK_NOSPACE == "gamseongbunseok"
GAMSEONG == "gamseong"
SENTIMENT_EN == "Sentiment"
TITLE_MARK == "hangugeo jemok:"
SUMMARY_MARK == "3jul yoyak:"
QUOTE_MARK == "haeksim munjang:"
BULLET == "bullet"
DASH == "-"
GT == ">"
DQUOTE == "\""
COLON == ":"
NL == "\n"
SP == " "
WORD == "x"
ERROR_PREFIX == "yoyak silpae: "

\* ------------------------------------------------------- Python str helpers
Min(a, b) == IF a < b THEN a ELSE b

Last(s) == s[Len(s)]

\* The pieces whose characters contain the substring `needle`.  Only the
\* needles below are contained in a piece other than themselves: ':' ends the
\* three section markers, and '감성' begins both sentiment markers.
PiecesWith(needle) ==
    IF needle = COLON THEN {COLON, TITLE_MARK, SUMMARY_MARK, QUOTE_MARK}
    ELSE IF needle = GAMSEONG THEN {GAMSEONG, SENT_MARK, SENT_MARK_NOSPACE}
    ELSE {needle}

\* needle in s
Contains(s, needle) == \E i \in 1..Len(s) : s[i] \in PiecesWith(needle)

\* str.isspace of a piece
IsSpace(p) == p \in {SP, NL}

\* s.strip()
Strip(s) ==
    IF \A i \in 1..Len(s) : IsSpace(s[i]) THEN <<>>
    ELSE LET a == CHOOSE i \in 1..Len(s) :
                      ~IsSpace(s[i]) /\ \A k \in 1..(i-1) : IsSpace(s[k])
             b == CHOOSE i \in 1..Len(s) :
                      ~IsSpace(s[i]) /\ \A k \in (i+1)..Len(s) : IsSpace(s[k])
         IN SubSeq(s, a, b)

\* s.split(sep): the parts of s between the occurrences of sep.  Every
\* occurrence of a separator used by the code ends the piece that holds it.
RECURSIVE Split(_, _)
Split(s, sep) ==
    IF ~Contains(s, sep) THEN <<s>>
    ELSE LET i == CHOOSE k \in 1..Len(s) :
                      s[k] \in PiecesWith(sep)
                      /\ \A m \in 1..(k-1) : s[m] \notin PiecesWith(sep)
         IN <<SubSeq(s, 1, i-1)>> \o Split(SubSeq(s, i+1, Len(s)), sep)

\* sep.join(parts)
RECURSIVE Join(_, _)
Join(parts, sep) ==
    IF Len(parts) = 0 THEN <<>>
    ELSE IF Len(parts) = 1 THEN parts[1]
    ELSE parts[1] \o <<sep>> \o Join(Tail(parts), sep)

\* s.startswith(p), p a single character
StartsWith(s, p) == Len(s) > 0 /\ s[1] = p

\* A faulty variant of RFind: str.find, the first position, in place of str.rfind.
RFind_First(s, needle) ==
    IF Contains(s, needle)
    THEN CHOOSE i \in 1..Len(s) :
             s[i] \in PiecesWith(needle)
             /\ \A k \in 1..(i-1) : s[k] \notin PiecesWith(needle)
    ELSE -1

\* s.rfind(needle): the last position of needle, -1 when there is none.
\* Positions are piece positions, which order occurrences as character
\* positions do.
RFind(s, needle) ==
    IF Contains(s, needle)
    THEN CHOOSE i \in 1..Len(s) :
             s[i] \in PiecesWith(needle)
             /\ \A k \in (i+1)..Len(s) : s[k] \notin PiecesWith(needle)
    ELSE -1

\* ---------------------------------------------------- summarize_with_gemini
\* lines 290-293: the bullet lines among the (up to) three lines after line i
RECURSIVE BulletLines(_, _, _)
BulletLines(lines, j, hi) ==
    IF j > hi THEN <<>>
    ELSE IF StartsWith(Strip(lines[j]), BULLET) \/ StartsWith(Strip(lines[j]), DASH)
         THEN <<Strip(lines[j])>> \o BulletLines(lines, j+1, hi)
         ELSE BulletLines(lines, j+1, hi)

\* A faulty variant of SummaryWindowEnd: a window of four lines.
SummaryWindowEnd_Four(lines, i) == Min(i + 4, Len(lines))

SummaryWindowEnd(lines, i) == Min(i + 3, Len(lines))

SummaryAt(lines, i, response_text) ==
    LET summary_lines == BulletLines(lines, i+1, SummaryWindowEnd(lines, i))
    IN IF Len(summary_lines) > 0 THEN Join(summary_lines, NL) ELSE response_text

\* lines 296-303: the quote lines after line i, up to the break
IsQuoteLine(stripped) ==
    StartsWith(stripped, GT) \/ StartsWith(stripped, DQUOTE)

\* A faulty variant of QuoteLines: no break at a line mentioning the sentiment marker.
RECURSIVE QuoteLines_NoBreak(_, _, _)
QuoteLines_NoBreak(lines, j, hi) ==
    IF j > hi THEN <<>>
    ELSE LET stripped == Strip(lines[j])
         IN IF IsQuoteLine(stripped)
            THEN <<stripped>> \o QuoteLines_NoBreak(lines, j+1, hi)
            ELSE QuoteLines_NoBreak(lines, j+1, hi)

RECURSIVE QuoteLines(_, _, _)
QuoteLines(lines, j, hi) ==
    IF j > hi THEN <<>>
    ELSE LET stripped == Strip(lines[j])
         IN IF IsQuoteLine(stripped)
            THEN <<stripped>> \o QuoteLines(lines, j+1, hi)
            ELSE IF Contains(stripped, SENT_MARK) THEN <<>>
            ELSE QuoteLines(lines, j+1, hi)

QuoteWindowEnd(lines, i) == Min(i + 3, Len(lines))

KeyQuotesAt(lines, i) ==
    Join(QuoteLines(lines, i+1, QuoteWindowEnd(lines, i)), NL)

\* line 305: the text the sentiment is read from
SentimentText(line) ==
    IF Contains(line, COLON) THEN Strip(Last(Split(line, COLON))) ELSE line

\* A faulty variant of ClassifySentiment: the else branch keeps the label as written
\* (its first word) in place of '중립'.
ClassifySentiment_FreeText(sentiment_text) ==
    IF Contains(sentiment_text, POSITIVE) THEN POSITIVE
    ELSE IF Contains(sentiment_text, NEGATIVE) THEN NEGATIVE
    ELSE IF Len(sentiment_text) > 0 THEN sentiment_text[1]
    ELSE NEUTRAL

\* A faulty variant of ClassifySentiment: '악재' is tested before '호재'.
ClassifySentiment_NegativeFirst(sentiment_text) ==
    IF Contains(sentiment_text, NEGATIVE) THEN NEGATIVE
    ELSE IF Contains(sentiment_text, POSITIVE) THEN POSITIVE
    ELSE NEUTRAL

\* lines 306-311
ClassifySentiment(sentiment_text) ==
    IF Contains(sentiment_text, POSITIVE) THEN POSITIVE
    ELSE IF Contains(sentiment_text, NEGATIVE) THEN NEGATIVE
    ELSE NEUTRAL

IsSentimentLine(line) ==
    Contains(line, SENT_MARK) \/ Contains(line, SENT_MARK_NOSPACE)

\* lines 285-311: one iteration of the loop over the lines
ScanLine(lines, i, response_text, acc) ==
    LET line == lines[i] IN
    IF Contains(line, TITLE_MARK)
    THEN [acc EXCEPT !.korean_title = Strip(Last(Split(line, TITLE_MARK)))]
    ELSE IF Contains(line, SUMMARY_MARK)
    THEN [acc EXCEPT !.summary = SummaryAt(lines, i, response_text)]
    ELSE IF Contains(line, QUOTE_MARK)
    THEN [acc EXCEPT !.key_quotes = KeyQuotesAt(lines, i)]
    ELSE IF IsSentimentLine(line)
    THEN [acc EXCEPT !.sentiment = ClassifySentiment(SentimentText(line))]
    ELSE acc

RECURSIVE ScanFrom(_, _, _, _)
ScanFrom(lines, i, response_text, acc) ==
    IF i > Len(lines) THEN acc
    ELSE ScanFrom(lines, i+1, response_text, ScanLine(lines, i, response_text, acc))

\* line 277
ResponseLines(response_text) == Split(Strip(response_text), NL)

\* lines 277-311: the locals after the loop
ScanLines(news_title, response_text) ==
    ScanFrom(ResponseLines(response_text), 1, response_text,
             [korean_title |-> news_title, summary |-> <<>>,
              key_quotes |-> <<>>, sentiment |-> NEUTRAL])

\* line 322
MentionsSentiment(line) ==
    Contains(line, GAMSEONG) \/ Contains(line, SENTIMENT_EN)

\* lines 320-328: the first line mentioning sentiment that carries a token
RECURSIVE RescanFrom(_, _)
RescanFrom(lines, i) ==
    IF i > Len(lines) THEN NEUTRAL
    ELSE IF MentionsSentiment(lines[i]) /\ Contains(lines[i], POSITIVE) THEN POSITIVE
    ELSE IF MentionsSentiment(lines[i]) /\ Contains(lines[i], NEGATIVE) THEN NEGATIVE
    ELSE RescanFrom(lines, i+1)

\* A faulty variant of LastMention: >= in place of >, and no test for -1.
LastMention_NoMissingCheck(response_text) ==
    LET last_positive == RFind(response_text, POSITIVE)
        last_negative == RFind(response_text, NEGATIVE)
    IN IF last_positive >= last_negative THEN POSITIVE
       ELSE NEGATIVE

\* lines 332-337
LastMention(response_text) ==
    LET last_positive == RFind(response_text, POSITIVE)
        last_negative == RFind(response_text, NEGATIVE)
    IN IF last_positive > last_negative /\ last_positive # -1 THEN POSITIVE
       ELSE IF last_negative > last_positive /\ last_negative # -1 THEN NEGATIVE
       ELSE NEUTRAL

\* lines 318-337
ResolveSentiment(sentiment, response_text) ==
    IF sentiment # NEUTRAL THEN sentiment
    ELSE LET rescanned == RescanFrom(ResponseLines(response_text), 1)
         IN IF rescanned # NEUTRAL THEN rescanned
            ELSE LastMention(response_text)

\* A faulty variant of RawResponse: the stripped text the lines were split from.
RawResponse_Stripped(response_text) == Strip(response_text)

\* line 344
RawResponse(response_text) == response_text

\* lines 313-345: the record returned on the normal path
BuildRecord(locals, response_text) ==
    [korean_title |-> locals.korean_title,
     summary |-> IF locals.summary = <<>> THEN response_text ELSE locals.summary,
     key_quotes |-> locals.key_quotes,
     sentiment |-> ResolveSentiment(locals.sentiment, response_text),
     raw_response |-> RawResponse(response_text)]

\* A faulty variant of DegradedRecord: the placeholder without the error message.
DegradedRecord_NoMessage(news_title, e) ==
    [korean_title |-> news_title,
     summary |-> <<ERROR_PREFIX>>,
     sentiment |-> NEUTRAL,
     raw_response |-> <<>>]

\* lines 347-353: the record returned when anything in the try block raises
DegradedRecord(news_title, e) ==
    [korean_title |-> news_title,
     summary |-> <<ERROR_PREFIX, e>>,
     sentiment |-> NEUTRAL,
     raw_response |-> <<>>]

\* lines 234-353, given what model.generate_content did
summarize_with_gemini(news_title, outcome) ==
    IF outcome.ok
    THEN BuildRecord(ScanLines(news_title, outcome.text), outcome.text)
    ELSE DegradedRecord(news_title, outcome.error)

\* ------------------------------------------------------------------- state
VARIABLES
    news_title,   \* summarize_with_gemini's argument news_title
    outcome,      \* what model.generate_content / response.text does in the call
    pc,           \* position in summarize_with_gemini: call, resolve, done
    locals,       \* korean_title, summary, key_quotes, sentiment after the loop
    result,       \* the record summarize_with_gemini returns
    selected_tickers,  \* main: the multiselect's tickers plus the custom ones
    refresh_button,    \* main: st.button's value in the latest run (line 423)
    auto_refresh,      \* st.session_state.auto_refresh
    news_data,         \* st.session_state.news_data: ticker -> fetched news
    summaries          \* st.session_state.summaries: news_key -> record

call == <<news_title, outcome, pc, locals, result>>
session == <<selected_tickers, refresh_button, auto_refresh, news_data, summaries>>
vars == <<call, session>>

\* ------------------------------------------------------------------ bounds
MaxLen == 5

SeqsUpTo(S, n) == UNION {[1..k -> S] : k \in 0..n}

Titles == {<<"Fed", "holds">>, <<"NVDA", "beats">>}
Errors == {"quota", "network"}

Ok(text) == [ok |-> TRUE, text |-> text, error |-> ""]
Raises(e) == [ok |-> FALSE, text |-> <<>>, error |-> e]

NoLocals == [pending |-> TRUE]
NoResult == [pending |-> TRUE]

\* The raw responses of the sentiment specification: every text of up to
\* MaxLen pieces over the pieces the sentiment tiers read.
SentimentPieces == {SENT_MARK, GAMSEONG, COLON, POSITIVE, NEGATIVE, NL, TITLE_MARK}
SentimentTexts == SeqsUpTo(SentimentPieces, MaxLen)

MaxLines == 5

\* the texts made of up to n lines, each of one of the given kinds
TextsOfLines(kinds, n) == {Join(ls, NL) : ls \in SeqsUpTo(kinds, n)}

\* The raw responses of the summary specification: lines that are the summary
\* marker, a bullet, an indented dash bullet, prose, a title line that also
\* carries the summary marker, or empty.
SummaryLineKinds ==
    {<<SUMMARY_MARK>>, <<BULLET>>, <<SP, DASH>>, <<WORD>>,
     <<TITLE_MARK, SUMMARY_MARK>>, <<>>}
SummaryTexts == TextsOfLines(SummaryLineKinds, MaxLines)

\* The raw responses of the key-quote specification: lines that are the quote
\* marker, a quote, an indented quotation, prose, a sentiment line, or a quote
\* that mentions the sentiment marker.
QuoteLineKinds ==
    {<<QUOTE_MARK>>, <<GT>>, <<SP, DQUOTE>>, <<WORD>>,
     <<SENT_MARK>>, <<GT, SENT_MARK>>}
QuoteTexts == TextsOfLines(QuoteLineKinds, MaxLines)

\* no dashboard session: summarize_with_gemini is called on its own
NoSession ==
    /\ selected_tickers = <<>>
    /\ refresh_button = FALSE
    /\ auto_refresh = FALSE
    /\ news_data = <<>>
    /\ summaries = <<>>

InitCall(texts) ==
    /\ news_title \in Titles
    /\ outcome \in {Ok(t) : t \in texts} \cup {Raises(e) : e \in Errors}
    /\ pc = "call"
    /\ locals = NoLocals
    /\ result = NoResult
    /\ NoSession

\* ----------------------------------------------------------------- actions
\* lines 273-311: the call returns its text and the loop scans its lines
ScanResponse ==
    /\ pc = "call"
    /\ outcome.ok
    /\ locals' = ScanLines(news_title, outcome.text)
    /\ pc' = "resolve"
    /\ UNCHANGED <<news_title, outcome, result, session>>

\* lines 313-345: the fallbacks run and the record is returned
ReturnRecord ==
    /\ pc = "resolve"
    /\ result' = BuildRecord(locals, outcome.text)
    /\ pc' = "done"
    /\ UNCHANGED <<news_title, outcome, locals, session>>

\* lines 347-353: the call raises and the degraded record is returned
ReturnDegraded ==
    /\ pc = "call"
    /\ ~outcome.ok
    /\ result' = DegradedRecord(news_title, outcome.error)
    /\ pc' = "done"
    /\ UNCHANGED <<news_title, outcome, locals, session>>

NextCall == ScanResponse \/ ReturnRecord \/ ReturnDegraded

InitSentiment == InitCall(SentimentTexts)
SpecSentiment == InitSentiment /\ [][NextCall]_vars

InitSummary == InitCall(SummaryTexts)
SpecSummary == InitSummary /\ [][NextCall]_vars

InitQuotes == InitCall(QuoteTexts)
SpecQuotes == InitQuotes /\ [][NextCall]_vars

\* -------------------------------------------------------------------- main
Tickers == {"SPY", "QQQ"}
\* line 397, cut to the tickers of the model
default_tickers == <<"SPY", "QQQ">>

\* what the multiselect and the custom input can hold (lines 400-415)
Selections == {sel \in SeqsUpTo(Tickers, 2) : \A i, j \in 1..Len(sel) : sel[i] = sel[j] => i = j}

\* what fetch_news(ticker, news_count) can return: the titles of its items,
\* some of the feed's titles in the feed's order
NewsLists == {<<>>} \cup {<<t>> : t \in Titles}
                 \cup {<<t, u>> : t \in {<<"Fed", "holds">>}, u \in {<<"NVDA", "beats">>}}

\* what fetch_news returns for each ticker of T in one run
Fetches(T) == [T -> NewsLists]

\* what the API key input can hold (lines 386-391)
ApiKeys == {"", "key"}

\* what the generator does when a summary is asked for in the session
SessionOutcomes == {Ok(<<SENT_MARK, COLON, POSITIVE>>), Raises("quota")}

\* the summaries one session is followed for
MaxCached == 2

Range(f) == {f[x] : x \in DOMAIN f}

\* lines 152-160: the items fetch_news builds for a ticker
NewsItems(ticker, titles) ==
    [k \in 1..Len(titles) |-> [title |-> titles[k], ticker |-> ticker]]

\* the tickers the collection loop fetches (line 461)
Missing(nd, sel) == Range(sel) \ DOMAIN nd

\* lines 460-463: news_data after the collection loop
Collect(nd, sel, fetched) ==
    [t \in DOMAIN nd \cup Range(sel) |->
        IF t \in DOMAIN nd THEN nd[t] ELSE NewsItems(t, fetched[t])]

\* line 464: the news of the selected tickers, in selection order
RECURSIVE Extend(_, _)
Extend(nd, sel) ==
    IF sel = <<>> THEN <<>> ELSE nd[sel[1]] \o Extend(nd, Tail(sel))

\* lines 467-473: the first item of each title
RECURSIVE Unique(_, _)
Unique(items, seen_titles) ==
    IF items = <<>> THEN <<>>
    ELSE IF items[1].title \in seen_titles THEN Unique(Tail(items), seen_titles)
    ELSE <<items[1]>> \o Unique(Tail(items), seen_titles \cup {items[1].title})

\* lines 459-473: the cards of a run
all_news(nd, sel) == Unique(Extend(nd, sel), {})

\* line 551: f"{news['ticker']}_{idx}", idx counted from 0
news_key(news, idx) == <<news.ticker, idx>>

\* the call variables while the dashboard runs
CallIdle ==
    /\ news_title = <<>>
    /\ outcome = Raises("")
    /\ pc = "idle"
    /\ locals = NoLocals
    /\ result = NoResult

\* the first run of main: the default tickers, lines 453-464
InitSession ==
    /\ CallIdle
    /\ selected_tickers = default_tickers
    /\ refresh_button = FALSE
    /\ auto_refresh = FALSE
    /\ \E fetched \in Fetches(Range(default_tickers)) :
           news_data = Collect(<<>>, default_tickers, fetched)
    /\ summaries = <<>>

\* A widget run that presses nothing (lines 448-464): the tickers missing from
\* news_data are fetched; with no ticker selected the run returns at line 450.
Rerun(sel) ==
    /\ \E fetched \in Fetches(Missing(news_data, sel)) :
           news_data' = IF sel = <<>> THEN news_data
                        ELSE Collect(news_data, sel, fetched)
    /\ refresh_button' = FALSE
    /\ UNCHANGED summaries

\* the ticker selection changes (lines 400-415)
SelectTickers ==
    \E sel \in Selections :
        /\ sel # selected_tickers
        /\ selected_tickers' = sel
        /\ Rerun(sel)
        /\ UNCHANGED <<auto_refresh, call>>

\* the auto-refresh toggle is flipped (lines 427-431)
ToggleAutoRefresh ==
    /\ auto_refresh' = ~auto_refresh
    /\ Rerun(selected_tickers)
    /\ UNCHANGED <<selected_tickers, call>>

\* the refresh button is pressed (lines 423, 448-464): both caches are reset
\* and the selected tickers are fetched again; with no ticker selected the
\* run returns at line 450
PressRefresh ==
    /\ refresh_button' = TRUE
    /\ IF selected_tickers = <<>>
       THEN UNCHANGED <<news_data, summaries>>
       ELSE /\ \E fetched \in Fetches(Range(selected_tickers)) :
                   news_data' = Collect(<<>>, selected_tickers, fetched)
            /\ summaries' = <<>>
    /\ UNCHANGED <<selected_tickers, auto_refresh, call>>

\* the cards on the screen
Cards == IF selected_tickers = <<>> THEN <<>> ELSE all_news(news_data, selected_tickers)

\* lines 577-582: the cache after the button of card idx is pressed
Summarized(cache, news, idx, api_key, gen) ==
    IF api_key = "" THEN cache
    ELSE (news_key(news, idx) :> summarize_with_gemini(news.title, gen)) @@ cache

\* the summarize button of the card at position idx is pressed (lines 576-583)
PressSummarize(idx, api_key, gen) ==
    /\ idx \in 0..(Len(Cards) - 1)
    /\ summaries' = Summarized(summaries, Cards[idx + 1], idx, api_key, gen)
    /\ Cardinality(DOMAIN summaries') <= MaxCached
    /\ refresh_button' = FALSE
    /\ UNCHANGED <<selected_tickers, auto_refresh, news_data, call>>

PressSummarizeAny ==
    \E idx \in 0..(Len(Cards) - 1), api_key \in ApiKeys, gen \in SessionOutcomes :
        PressSummarize(idx, api_key, gen)

\* A faulty variant of AutoRefreshTick: the reset of lines 454-455, both caches, in
\* place of line 606.
AutoRefreshTick_ClearsSummaries ==
    /\ auto_refresh
    /\ Cards # <<>>
    /\ \E fetched \in Fetches(Range(selected_tickers)) :
           news_data' = Collect(<<>>, selected_tickers, fetched)
    /\ summaries' = <<>>
    /\ refresh_button' = FALSE
    /\ UNCHANGED <<selected_tickers, auto_refresh, call>>

\* the 30 seconds at the end of a run elapse (lines 603-607): news_data is
\* emptied and the rerun fetches the selected tickers again
AutoRefreshTick ==
    /\ auto_refresh
    /\ Cards # <<>>
    /\ \E fetched \in Fetches(Range(selected_tickers)) :
           news_data' = Collect(<<>>, selected_tickers, fetched)
    /\ refresh_button' = FALSE
    /\ UNCHANGED <<selected_tickers, auto_refresh, summaries, call>>

Next ==
    \/ SelectTickers
    \/ ToggleAutoRefresh
    \/ PressRefresh
    \/ PressSummarizeAny
    \/ AutoRefreshTick

Spec == InitSession /\ [][Next]_vars

\* ============================================================== properties
Sentiments == {POSITIVE, NEGATIVE, NEUTRAL}
SectionMarks == {TITLE_MARK, SUMMARY_MARK, QUOTE_MARK}
SentimentMarks == {SENT_MARK, SENT_MARK_NOSPACE}

\* summarize_with_gemini has returned on the normal path
Returned == pc = "done" /\ outcome.ok
\* summarize_with_gemini has returned on the exception path
Degraded == pc = "done" /\ ~outcome.ok

RawLines == ResponseLines(outcome.text)

HasPiece(s, P) == \E i \in 1..Len(s) : s[i] \in P

\* token occurs in s with no colon after it (in the text after the last
\* colon, or anywhere when s has no colon)
AfterLastColon(s, token) ==
    \E k \in 1..Len(s) : s[k] = token /\ \A m \in (k+1)..Len(s) : s[m] # COLON

\* token occurs in s after the first colon (anywhere when s has no colon)
AfterFirstColon(s, token) ==
    \E k \in 1..Len(s) :
        /\ s[k] = token
        /\ HasPiece(s, {COLON}) => \E c \in 1..(k-1) : s[c] = COLON

\* the line is handled by the sentiment branch of the loop: it carries a
\* sentiment marker and none of the markers tested before it
SentimentBranchLine(line) ==
    HasPiece(line, SentimentMarks) /\ ~HasPiece(line, SectionMarks)

\* n is the last line the sentiment branch handles
LastSentimentBranchLine(n) ==
    /\ n \in 1..Len(RawLines)
    /\ SentimentBranchLine(RawLines[n])
    /\ \A m \in (n+1)..Len(RawLines) : ~SentimentBranchLine(RawLines[m])

\* --- C1: every returned record, on the normal and on the exception path,
\* has a sentiment field that is one of 호재, 악재, 중립.
C1_SentimentIsEnum ==
    pc = "done" =>
        /\ "sentiment" \in DOMAIN result
        /\ result.sentiment \in Sentiments

\* An ambiguous response (a sentiment line naming both labels) was interpreted.
C1_Witness ==
    /\ Returned
    /\ \E n \in 1..Len(RawLines) :
           /\ SentimentBranchLine(RawLines[n])
           /\ HasPiece(RawLines[n], {POSITIVE})
           /\ HasPiece(RawLines[n], {NEGATIVE})
    /\ result.sentiment \in Sentiments

\* a well-formed sentiment line: the marker, a colon, then text with the token
WellFormedSentimentLine(line, token) ==
    \E i, j, k \in 1..Len(line) :
        i < j /\ j < k /\ line[i] = SENT_MARK /\ line[j] = COLON /\ line[k] = token

HasWellFormedSentimentLine(token) ==
    \E n \in 1..Len(RawLines) : WellFormedSentimentLine(RawLines[n], token)

OccursAfterLast(a, b) ==
    \E k \in 1..Len(outcome.text) :
        /\ outcome.text[k] = a
        /\ \A m \in (k+1)..Len(outcome.text) : outcome.text[m] # b

NoSentimentLabelledLine == ~HasPiece(outcome.text, SentimentMarks)

\* --- C3 as claimed: with no sentiment-labelled line, the label mentioned
\* last in the raw text wins.
C3_LastMentionWins ==
    (Returned /\ NoSentimentLabelledLine) =>
        /\ OccursAfterLast(POSITIVE, NEGATIVE) => result.sentiment = POSITIVE
        /\ OccursAfterLast(NEGATIVE, POSITIVE) => result.sentiment = NEGATIVE

\* no line that mentions sentiment ('감성', or 'sentiment' in any letter
\* case) carries a label
NoLabelOnMentionLine ==
    \A n \in 1..Len(RawLines) :
        HasPiece(RawLines[n], {GAMSEONG, SENTIMENT_EN} \cup SentimentMarks)
            => ~HasPiece(RawLines[n], {POSITIVE, NEGATIVE})

\* --- C3 as amended: with no sentiment-labelled line and no label on any
\* line that mentions sentiment, the label mentioned last in the raw text wins.
C3_LastMentionWinsWithoutMention ==
    (Returned /\ NoSentimentLabelledLine /\ NoLabelOnMentionLine) =>
        /\ OccursAfterLast(POSITIVE, NEGATIVE) => result.sentiment = POSITIVE
        /\ OccursAfterLast(NEGATIVE, POSITIVE) => result.sentiment = NEGATIVE

\* A response naming both labels, 악재 first and 호재 last, with no label on a
\* line that mentions sentiment, was interpreted as Positive.
C3_Witness ==
    /\ Returned
    /\ NoSentimentLabelledLine
    /\ NoLabelOnMentionLine
    /\ HasPiece(outcome.text, {NEGATIVE})
    /\ OccursAfterLast(POSITIVE, NEGATIVE)
    /\ result.sentiment = POSITIVE

\* --- C4: on the normal path raw_response is the generator's text, piece for
\* piece, leading and trailing whitespace included.
C4_RawResponseRoundTrip ==
    Returned => result.raw_response = outcome.text

\* A response with whitespace at both ends was returned verbatim.
C4_Witness ==
    /\ Returned
    /\ Len(outcome.text) >= 3
    /\ IsSpace(outcome.text[1])
    /\ IsSpace(Last(outcome.text))
    /\ result.raw_response = outcome.text

\* --- C5: when the call raises, a degraded record is returned: the original
\* title, the error placeholder carrying the message, and 중립.
C5_DegradedOnFailure ==
    (pc = "done" /\ ~outcome.ok) =>
        /\ result.korean_title = news_title
        /\ result.summary = <<ERROR_PREFIX, outcome.error>>
        /\ result.sentiment = NEUTRAL

\* The call raised "quota" and a record came back.
C5_Witness ==
    /\ Degraded
    /\ outcome.error = "quota"
    /\ result.summary = <<ERROR_PREFIX, "quota">>

\* --- C8: a raw text that names neither 호재 nor 악재 is Neutral, whichever
\* markers it contains.
C8_NoTokenIsNeutral ==
    (Returned /\ ~HasPiece(outcome.text, {POSITIVE, NEGATIVE}))
        => result.sentiment = NEUTRAL

\* A response with a sentiment line and a colon but no label was interpreted.
C8_Witness ==
    /\ Returned
    /\ ~HasPiece(outcome.text, {POSITIVE, NEGATIVE})
    /\ HasPiece(outcome.text, SentimentMarks)
    /\ HasPiece(outcome.text, {COLON})
    /\ result.sentiment = NEUTRAL

\* the label read from the text after the first colon of a line
FirstColonLabel(line) ==
    IF AfterFirstColon(line, POSITIVE) THEN POSITIVE
    ELSE IF AfterFirstColon(line, NEGATIVE) THEN NEGATIVE
    ELSE NEUTRAL

\* --- C9: after the loop, the structured sentiment is the label read from the
\* text after the first colon of the (last) line carrying the marker.
C9_FirstColonClassifies ==
    pc = "resolve" =>
        \A n \in 1..Len(RawLines) :
            LastSentimentBranchLine(n)
                => locals.sentiment = FirstColonLabel(RawLines[n])

\* the first piece of the stripped line is one of P
StrippedStartsWith(line, P) ==
    \E k \in 1..Len(line) :
        line[k] \in P /\ \A m \in 1..(k-1) : line[m] \in {SP, NL}

\* the stripped lines, in order, of the lines a..b that satisfy Keep(_)
StrippedLinesWhere(lines, a, b, Keep(_)) ==
    LET kept == SelectSeq(SubSeq(lines, a, b), Keep)
    IN [k \in 1..Len(kept) |-> Strip(kept[k])]

IsBulletLine(line) == StrippedStartsWith(line, {BULLET, DASH})

\* the bullet lines among the (up to) three lines after line n
BulletsAfter(lines, n) ==
    StrippedLinesWhere(lines, n + 1, IF n + 3 < Len(lines) THEN n + 3 ELSE Len(lines),
                       IsBulletLine)

\* what the claim says of the summary, given the marker line n it speaks of
SummaryFollowsLine(lines, n) ==
    IF BulletsAfter(lines, n) = <<>>
    THEN result.summary = outcome.text
    ELSE /\ Split(result.summary, NL) = BulletsAfter(lines, n)
         /\ Len(Split(result.summary, NL)) <= 3

\* n is the last line carrying the summary marker
LastSummaryMarkLine(lines, n) ==
    /\ n \in 1..Len(lines)
    /\ HasPiece(lines[n], {SUMMARY_MARK})
    /\ \A m \in (n+1)..Len(lines) : ~HasPiece(lines[m], {SUMMARY_MARK})

\* the line is handled by the summary branch of the loop
SummaryBranchLine(line) ==
    HasPiece(line, {SUMMARY_MARK}) /\ ~HasPiece(line, {TITLE_MARK})

\* n is the last line the summary branch handles
LastSummaryBranchLine(lines, n) ==
    /\ n \in 1..Len(lines)
    /\ SummaryBranchLine(lines[n])
    /\ \A m \in (n+1)..Len(lines) : ~SummaryBranchLine(lines[m])

\* --- C6 as claimed: without a summary marker line the summary is the raw
\* text; with one, it is the bullet lines among the three lines after it,
\* stripped, in order, joined by newlines, or the raw text when there are none.
C6_SummaryFollowsMarker ==
    LET lines == RawLines IN
    Returned =>
        /\ ~HasPiece(outcome.text, {SUMMARY_MARK}) => result.summary = outcome.text
        /\ \A n \in 1..Len(lines) : LastSummaryMarkLine(lines, n) => SummaryFollowsLine(lines, n)

\* --- C6 as amended: the marker line that counts is the last line carrying
\* the summary marker and not the title marker; without such a line the
\* summary is the raw text.
C6_SummaryFollowsBranchLine ==
    LET lines == RawLines IN
    Returned =>
        /\ (\A n \in 1..Len(lines) : ~SummaryBranchLine(lines[n]))
               => result.summary = outcome.text
        /\ \A n \in 1..Len(lines) : LastSummaryBranchLine(lines, n) => SummaryFollowsLine(lines, n)

\* A summary of two bullets was taken from a window that also holds prose,
\* with a further bullet beyond the window left out.
C6_Witness ==
    LET lines == RawLines IN
    /\ Returned
    /\ LastSummaryBranchLine(lines, 1)
    /\ Len(lines) = 5
    /\ IsBulletLine(lines[5])
    /\ Len(BulletsAfter(lines, 1)) = 2
    /\ Split(result.summary, NL) = BulletsAfter(lines, 1)

IsQuotePrefixed(line) == StrippedStartsWith(line, {GT, DQUOTE})

RECURSIVE IsSubsequence(_, _)
IsSubsequence(a, b) ==
    IF a = <<>> THEN TRUE
    ELSE IF b = <<>> THEN FALSE
    ELSE IF a[1] = b[1] THEN IsSubsequence(Tail(a), Tail(b))
    ELSE IsSubsequence(a, Tail(b))

\* the lines of key_quotes ('' has none)
KeyQuoteLines ==
    IF result.key_quotes = <<>> THEN <<>> ELSE Split(result.key_quotes, NL)

\* n is the last line carrying the key-quote marker (and no marker tested
\* before it in the loop)
LastQuoteMarkLine(lines, n) ==
    /\ n \in 1..Len(lines)
    /\ HasPiece(lines[n], {QUOTE_MARK})
    /\ ~HasPiece(lines[n], {TITLE_MARK, SUMMARY_MARK})
    /\ \A m \in (n+1)..Len(lines) :
           ~(HasPiece(lines[m], {QUOTE_MARK})
             /\ ~HasPiece(lines[m], {TITLE_MARK, SUMMARY_MARK}))

\* the first line after n that satisfies Stop(_), Len(lines) + 1 if none
FirstAfter(lines, n, Stop(_)) ==
    IF \E m \in (n+1)..Len(lines) : Stop(lines[m])
    THEN CHOOSE m \in (n+1)..Len(lines) :
             Stop(lines[m]) /\ \A k \in (n+1)..(m-1) : ~Stop(lines[k])
    ELSE Len(lines) + 1

MentionsSentMark(line) == HasPiece(line, {SENT_MARK})
UnquotedSentMark(line) == MentionsSentMark(line) /\ ~IsQuotePrefixed(line)

\* key_quotes holds only quote-prefixed lines between the marker line n and
\* the stop line, in line order, and nothing when there are none
KeyQuotesStopAt(lines, n, stop) ==
    LET allowed == StrippedLinesWhere(lines, n + 1, stop - 1, IsQuotePrefixed)
    IN /\ IsSubsequence(KeyQuoteLines, allowed)
       /\ allowed = <<>> => result.key_quotes = <<>>

\* --- C10 as claimed: collection stops at the first line after the key-quote
\* marker that mentions the sentiment marker; key_quotes holds only
\* quote-prefixed lines before it, in order, and is empty when there are none.
C10_QuotesStopAtSentimentLine ==
    LET lines == RawLines IN
    Returned =>
        /\ \A n \in 1..Len(lines) :
               LastQuoteMarkLine(lines, n)
                   => KeyQuotesStopAt(lines, n, FirstAfter(lines, n, MentionsSentMark))
        /\ ~HasPiece(outcome.text, {QUOTE_MARK}) => result.key_quotes = <<>>

\* --- C10 as amended: collection stops at the first line after the key-quote
\* marker that mentions the sentiment marker and is not itself quote-prefixed.
C10_QuotesStopAtUnquotedSentimentLine ==
    LET lines == RawLines IN
    Returned =>
        /\ \A n \in 1..Len(lines) :
               LastQuoteMarkLine(lines, n)
                   => KeyQuotesStopAt(lines, n, FirstAfter(lines, n, UnquotedSentMark))
        /\ ~HasPiece(outcome.text, {QUOTE_MARK}) => result.key_quotes = <<>>

\* A quote before a sentiment line was collected and a quote after it was not.
C10_Witness ==
    LET lines == RawLines IN
    /\ Returned
    /\ LastQuoteMarkLine(lines, 1)
    /\ Len(lines) = 4
    /\ IsQuotePrefixed(lines[2])
    /\ UnquotedSentMark(lines[3])
    /\ IsQuotePrefixed(lines[4])
    /\ KeyQuoteLines = <<Strip(lines[2])>>

\* the step is a press of the summarize button of the card whose key is k
ResummarizeOf(k) ==
    \E idx \in 0..(Len(Cards) - 1), api_key \in ApiKeys, gen \in SessionOutcomes :
        /\ news_key(Cards[idx + 1], idx) = k
        /\ PressSummarize(idx, api_key, gen)

\* every cached entry is still cached after the step, and is the same record
\* unless the step summarized its key again
CachedEntriesKept ==
    \A k \in DOMAIN summaries :
        /\ k \in DOMAIN summaries'
        /\ summaries'[k] # summaries[k] => ResummarizeOf(k)

\* --- C7 as claimed: whatever the user does, a cached summary stays cached,
\* and changes only by a re-summarization of its own key.
C7_CacheKeptForSession == [][CachedEntriesKept]_vars

\* --- C7 as amended: a run set off by the refresh button empties the cache;
\* every other action keeps each cached summary, and changes one only by a
\* re-summarization of its own key.
C7_CacheKeptUntilRefresh ==
    [][(refresh_button' /\ summaries' = <<>>) \/ CachedEntriesKept]_vars

\* A cached summary whose ticker is no longer selected: it outlived a change
\* of the ticker selection.
C7_Witness ==
    \E k \in DOMAIN summaries :
        /\ k[1] \notin Range(selected_tickers)
        /\ auto_refresh

\* The title a cached record was generated from.  korean_title starts as the
\* news_title argument (line 280) and is replaced only by a title line of the
\* response; the responses of SessionOutcomes carry none, and the degraded
\* record keeps the argument too (line 349).  The cards are deduplicated by
\* title (lines 467-473), so the title names the card's item, link included.
GeneratedFrom(record) == record.korean_title

\* the card at position idx shows a cached summary (lines 551-554)
ShowsSummary(idx) ==
    /\ idx \in 0..(Len(Cards) - 1)
    /\ news_key(Cards[idx + 1], idx) \in DOMAIN summaries

\* --- C11: in every reachable session state, the cached summary a card shows
\* (looked up under the key ticker_index of the card's position) was generated
\* from the news item that card shows now.
C11_SummaryShownForItsItem ==
    \A idx \in 0..(Len(Cards) - 1) :
        ShowsSummary(idx) =>
            GeneratedFrom(summaries[news_key(Cards[idx + 1], idx)])
                = Cards[idx + 1].title

====
